---- MODULE Spec2Model ----
(***************************************************************************)
(* The two report endpoints of the TVA Boom Deployment Calculator:         *)
(*   "api"     = src/api/generate-report.js  (handler, exponentialBackoff) *)
(*   "unnamed" = src/unnamed/part_000        (module.exports,              *)
(*                                            fetchWithBackoff)            *)
(* One behaviour of the model is one request served by one of the two      *)
(* handlers, with the two upstream services (generation, persistence)      *)
(* answering each outbound call with a network error or an HTTP status.    *)
(***************************************************************************)
EXTENDS Integers, Sequences, FiniteSets, TLC

(***************************************************************************)
(* JavaScript values.  A number is the exact rational n/d in lowest terms  *)
(* (d > 0); a string is the sequence of its pieces: payload strings are    *)
(* held one character per piece, so that includes/split/replace/parseFloat *)
(* /parseInt work on characters; literal text of the source is held as one *)
(* piece per literal.                                                      *)
(***************************************************************************)
JSV(t, n, d, s) == [t |-> t, n |-> n, d |-> d, s |-> s]

Undefined == JSV("undefined", 0, 1, <<>>)

Null == JSV("null", 0, 1, <<>>)

NaN == JSV("NaN", 0, 1, <<>>)

Infinity(sign) == JSV("Infinity", sign, 1, <<>>)

Bool(b) == JSV("boolean", IF b THEN 1 ELSE 0, 1, <<>>)

Str(s) == JSV("string", 0, 1, s)

Abs(x) == IF x < 0 THEN -x ELSE x

RECURSIVE GCD(_, _)
GCD(a, b) == IF b = 0 THEN a ELSE GCD(b, a % b)

Num(n, d) ==
    LET g == GCD(Abs(n), d)
    IN  JSV("number", n \div g, d \div g, <<>>)

Digits == {"0", "1", "2", "3", "4", "5", "6", "7", "8", "9"}

DigitVal(c) ==
    CASE c = "0" -> 0 [] c = "1" -> 1 [] c = "2" -> 2 [] c = "3" -> 3
      [] c = "4" -> 4 [] c = "5" -> 5 [] c = "6" -> 6 [] c = "7" -> 7
      [] c = "8" -> 8 [] c = "9" -> 9

DigitChar(v) == <<"0", "1", "2", "3", "4", "5", "6", "7", "8", "9">>[v + 1]

RECURSIVE DigitsToNat(_)
DigitsToNat(s) ==
    IF s = <<>> THEN 0
    ELSE 10 * DigitsToNat(SubSeq(s, 1, Len(s) - 1)) + DigitVal(s[Len(s)])

RECURSIVE NatToDigits(_)
NatToDigits(v) ==
    IF v < 10 THEN <<DigitChar(v)>>
    ELSE NatToDigits(v \div 10) \o <<DigitChar(v % 10)>>

RECURSIVE Pow10(_)
Pow10(k) == IF k = 0 THEN 1 ELSE 10 * Pow10(k - 1)

\* Length of the longest prefix of s made of characters of set C.
RECURSIVE PrefixLen(_, _)
PrefixLen(s, C) ==
    IF s = <<>> \/ s[1] \notin C THEN 0 ELSE 1 + PrefixLen(Tail(s), C)

Drop(s, k) == SubSeq(s, k + 1, Len(s))

Take(s, k) == SubSeq(s, 1, k)

TrimStart(s) == Drop(s, PrefixLen(s, {" "}))

RECURSIVE TrimEnd(_)
TrimEnd(s) ==
    IF s # <<>> /\ s[Len(s)] = " " THEN TrimEnd(Take(s, Len(s) - 1)) ELSE s

(***************************************************************************)
(* The longest decimal literal [+-] digits [. digits] that starts s:       *)
(* ok says that there is one, used is its length, n/d its value.           *)
(***************************************************************************)
DecimalPrefix(s) ==
    LET signLen == IF s # <<>> /\ s[1] \in {"+", "-"} THEN 1 ELSE 0
        neg     == signLen = 1 /\ s[1] = "-"
        body    == Drop(s, signLen)
        intLen  == PrefixLen(body, Digits)
        rest    == Drop(body, intLen)
        dot     == rest # <<>> /\ rest[1] = "."
        fracLen == IF dot THEN PrefixLen(Tail(rest), Digits) ELSE 0
        digs    == Take(body, intLen) \o (IF dot THEN Take(Tail(rest), fracLen) ELSE <<>>)
        mag     == DigitsToNat(digs)
    IN  [ok   |-> intLen + fracLen > 0,
         used |-> signLen + intLen + (IF dot /\ (intLen + fracLen > 0) THEN 1 + fracLen ELSE 0),
         n    |-> IF neg THEN -mag ELSE mag,
         d    |-> Pow10(fracLen)]

\* String(v) of a template literal `${v}` (numbers of a JSON payload are
\* decimal literals, so their expansion terminates).
RECURSIVE FracDigits(_, _)
FracDigits(r, d) ==
    IF r = 0 THEN <<>>
    ELSE <<DigitChar((10 * r) \div d)>> \o FracDigits((10 * r) % d, d)

ToStringJS(v) ==
    CASE v.t = "string"    -> v
      [] v.t = "undefined" -> Str(<<"undefined">>)
      [] v.t = "null"      -> Str(<<"null">>)
      [] v.t = "NaN"       -> Str(<<"NaN">>)
      [] v.t = "Infinity"  -> Str(IF v.n < 0 THEN <<"-Infinity">> ELSE <<"Infinity">>)
      [] v.t = "boolean"   -> Str(IF v.n = 1 THEN <<"true">> ELSE <<"false">>)
      [] v.t = "number"    ->
            LET a == Abs(v.n)
            IN  Str((IF v.n < 0 THEN <<"-">> ELSE <<>>)
                    \o NatToDigits(a \div v.d)
                    \o (IF a % v.d = 0 THEN <<>>
                        ELSE <<".">> \o FracDigits(a % v.d, v.d)))

\* Truthiness, as `x ? a : b`, `x || y` and `!x` take it.
ToBoolean(v) ==
    CASE v.t \in {"undefined", "null", "NaN"} -> FALSE
      [] v.t = "boolean"  -> v.n = 1
      [] v.t = "number"   -> v.n # 0
      [] v.t = "string"   -> v.s # <<>>
      [] v.t = "Infinity" -> TRUE

\* x || y
Or(x, y) == IF ToBoolean(x) THEN x ELSE y

\* The global parseFloat: a number parses to itself (its decimal string
\* reads back as the same number), anything else goes through String(v).
parseFloat(v) ==
    IF v.t \in {"number", "NaN", "Infinity"} THEN v
    ELSE IF v.t # "string" THEN NaN
    ELSE LET p == DecimalPrefix(TrimStart(v.s))
         IN  IF p.ok THEN Num(p.n, p.d) ELSE NaN

\* The global parseInt with no radix: the leading integer, truncating.
parseInt(v) ==
    CASE v.t = "number" ->
            Num((IF v.n < 0 THEN -1 ELSE 1) * (Abs(v.n) \div v.d), 1)
      [] v.t = "string" ->
            LET t       == TrimStart(v.s)
                signLen == IF t # <<>> /\ t[1] \in {"+", "-"} THEN 1 ELSE 0
                k       == PrefixLen(Drop(t, signLen), Digits)
                mag     == DigitsToNat(SubSeq(t, signLen + 1, signLen + k))
            IN  IF k = 0 THEN NaN
                ELSE Num(IF signLen = 1 /\ t[1] = "-" THEN -mag ELSE mag, 1)
      [] OTHER -> NaN

\* ToNumber, as the operands of `/` take it: the whole string must be a
\* numeric literal, and the empty string is 0.
ToNumber(v) ==
    CASE v.t \in {"number", "NaN", "Infinity"} -> v
      [] v.t = "undefined" -> NaN
      [] v.t = "null"      -> Num(0, 1)
      [] v.t = "boolean"   -> Num(v.n, 1)
      [] v.t = "string"    ->
            LET t == TrimEnd(TrimStart(v.s))
                p == DecimalPrefix(t)
            IN  IF t = <<>> THEN Num(0, 1)
                ELSE IF p.ok /\ p.used = Len(t) THEN Num(p.n, p.d)
                ELSE NaN

\* a / b
Divide(a, b) ==
    LET x == ToNumber(a)
        y == ToNumber(b)
    IN  CASE x.t = "NaN" \/ y.t = "NaN" -> NaN
          [] x.t = "Infinity" ->
                IF y.t = "Infinity" THEN NaN
                ELSE Infinity(IF y.n < 0 THEN -x.n ELSE x.n)
          [] y.t = "Infinity" -> Num(0, 1)
          [] y.n = 0 ->
                IF x.n = 0 THEN NaN ELSE Infinity(IF x.n < 0 THEN -1 ELSE 1)
          [] OTHER ->
                Num((IF y.n < 0 THEN -1 ELSE 1) * x.n * y.d, x.d * Abs(y.n))

\* The global isNaN (its argument is always a parseFloat result here).
isNaN(v) == ToNumber(v).t = "NaN"

\* s.includes(needle), both strings held by character.
Includes(s, needle) ==
    \E i \in 1..(Len(s) - Len(needle) + 1) :
        SubSeq(s, i, i + Len(needle) - 1) = needle

\* s.replace(c, ''): the first occurrence of the character c removed.
RECURSIVE ReplaceFirst(_, _)
ReplaceFirst(s, c) ==
    IF s = <<>> THEN <<>>
    ELSE IF s[1] = c THEN Tail(s)
    ELSE <<s[1]>> \o ReplaceFirst(Tail(s), c)

\* s.split(' ')[0]: what stands before the first space.
SplitFirst(s) == Take(s, PrefixLen(s, {s[i] : i \in 1..Len(s)} \ {" "}))

\* JSON.stringify of the `fields` object: a property whose value is
\* undefined is left out, NaN and the infinities are written as null.
JSONstringify(fields) ==
    [k \in {f \in DOMAIN fields : fields[f].t # "undefined"} |->
        IF fields[k].t \in {"NaN", "Infinity"} THEN Null ELSE fields[k]]

(***************************************************************************)
(* The request, the configuration and the upstream services.               *)
(***************************************************************************)
Variants == {"api", "unnamed"}

Methods == {"POST", "GET", "PUT"}

\* process.env: the names each handler reads.
GenerationKey(v) == IF v = "api" THEN "GOOGLE_API_KEY" ELSE "GEMINI_API_KEY"

Secrets(v) ==
    {GenerationKey(v), "AIRTABLE_API_KEY", "AIRTABLE_BASE_ID", "AIRTABLE_TABLE_ID"}

\* What one outbound fetch ends in: the promise rejects with a network
\* error, or resolves with a response of some HTTP status.
NetworkError(code) == [error |-> code, status |-> 0]

Response(status) == [error |-> "", status |-> status]

NoResult == [error |-> "", status |-> -1]

\* response.ok
Ok(status) == status \in 200..299

statusText(status) ==
    CASE status = 200 -> "OK"
      [] status = 429 -> "Too Many Requests"
      [] status = 500 -> "Internal Server Error"
      [] OTHER        -> ""

\* The failures the upstream services show during one request; a call can
\* always be answered 200 as well.
FaultProfiles ==
    { {NetworkError("ECONNRESET"), NetworkError("ETIMEDOUT")},
      {NetworkError("ECONNRESET"), Response(429), Response(500)} }

Upstream(fs) == fs \cup {Response(200)}

\* What response.json() of the generation service gives: a rejection when
\* the body is no JSON, else the value at candidates[0].content.parts[0].text.
ReportText == Str(<<"Deployment report body.">>)

GenerationBodies ==
    { [json |-> FALSE, text |-> Undefined],
      [json |-> TRUE, text |-> Undefined],
      [json |-> TRUE, text |-> Str(<<>>)],
      [json |-> TRUE, text |-> ReportText] }

\* Request bodies.  The scenario payload of the specification, and the
\* payloads that vary the fields the handlers coerce.
MaxSegments == 2

MaxMissing == 1

IntervalLeads == {1, 150, 200}

\* A leading number N as it is written, with its value n/d: the whole
\* numbers of IntervalLeads, and one number with a fraction.
Lead(text, n, d) == [text |-> text, n |-> n, d |-> d]

Leads ==
    {Lead(NatToDigits(k), k, 1) : k \in IntervalLeads}
      \cup {Lead(<<"2", ".", "5">>, 5, 2)}

\* The three forms an interval string takes: "N", "N+" and "N per <unit>".
IntervalForms(l) ==
    { Str(l.text),
      Str(l.text \o <<"+">>),
      Str(l.text \o <<" ", "p", "e", "r", " ", "1", "0", "0", " ", "f", "t">>) }

Intervals ==
    {Undefined, Num(150, 1), Str(<<"a", "b", "c">>)}
      \cup UNION {IntervalForms(l) : l \in Leads}

SegmentValues ==
    {Undefined} \cup {Str(NatToDigits(k)) : k \in 1..MaxSegments}
                \cup {Num(k, 1) : k \in 2..(MaxSegments + 1)}

Measurements == {Undefined, Str(<<"2", ".", "5">>), Str(<<"a", "b", "c">>)}

ScenarioBody ==
    [current              |-> Str(<<"2", ".", "5">>),
     angle                |-> Str(<<"3", "0">>),
     riverWidth           |-> Str(<<"3", "0", "0">>),
     riverMile            |-> Str(<<"4", "5">>),
     calculatedBoomLength |-> Str(<<"3", "5", "0">>),
     tension              |-> Str(<<"1", "2", "0", "0">>),
     interval             |-> Str(<<"1", "5", "0", "+">>),
     driftTime            |-> Str(<<"4", "0">>),
     isCascade            |-> Bool(TRUE),
     segments             |-> Str(<<"2">>),
     anchors              |-> Str(<<"5">>),
     anchorDetailsText    |-> Str(<<"...">>)]

Bodies ==
    { [ScenarioBody EXCEPT !.isCascade = Bool(c), !.segments = sg,
                            !.interval = iv, !.current = m] :
        c \in BOOLEAN, sg \in SegmentValues, iv \in Intervals, m \in Measurements }

(***************************************************************************)
(* State of one request.                                                   *)
(***************************************************************************)
VARIABLES
    variant,          \* which of the two handlers serves the request
    method,           \* req.method
    env,              \* the names process.env defines
    body,             \* req.body
    faults,           \* the failures the upstream services show (FaultProfiles)
    pc,               \* where the handler stands
    phase,            \* the step the handler is in: "gen" or "persist"
    i,                \* exponentialBackoff: the loop variable
    retries,          \* fetchWithBackoff: the parameter of the running call
    delay,            \* fetchWithBackoff: the parameter of the running call
    sent,             \* outbound calls made so far, per service
    outcomes,         \* what each outbound call ended in, per service
    waits,            \* the setTimeout delays awaited so far, per service
    result,           \* what the backoff invoker returned to the handler
    thrown,           \* the errors raised into the handler's try block
    prompt,           \* the prompt built for the generation service
    geminiResult,     \* what response.json() of the generation step gave
    generatedText,    \* const generatedText
    airtablePayload,  \* JSON.stringify of the record for the persistence service
    responses         \* the HTTP responses sent to the caller

vars == <<variant, method, env, body, faults, pc, phase, i, retries, delay,
          sent, outcomes, waits, result, thrown, prompt, geminiResult,
          generatedText, airtablePayload, responses>>

input == <<variant, method, env, body, faults>>

maxRetries == 5

baseDelay == 1000

defaultRetries == 3

defaultDelay == 1000

RECURSIVE Pow2(_)
Pow2(k) == IF k = 0 THEN 1 ELSE 2 * Pow2(k - 1)

Last(s) == s[Len(s)]

RECURSIVE Sum(_)
Sum(s) == IF s = <<>> THEN 0 ELSE s[1] + Sum(Tail(s))

NoPrompt == <<>>

NoPayload == <<>>

NotParsed == <<>>

(***************************************************************************)
(* Error messages.                                                         *)
(***************************************************************************)
\* The message of the error a rejected fetch carries.
FetchErrorMessage(o) == Str(<<"request failed, reason: ", o.error>>)

\* new Error(`HTTP error! status: ${response.status}`)
HttpErrorMessage(status) == Str(<<"HTTP error! status: ", ToString(status)>>)

JsonErrorMessage == Str(<<"Unexpected token in JSON">>)

NoTextMessage == Str(<<"Failed to generate report text from Google AI.">>)

IncludesTypeError(v) ==
    IF v.t \in {"undefined", "null"}
    THEN Str(<<"Cannot read properties of ", v.t, " (reading 'includes')">>)
    ELSE Str(<<"interval.includes is not a function">>)

SaveErrorMessage(status) ==
    Str(<<"Failed to save report to Airtable: ", ToString(status), " ",
          statusText(status), " - ", "<response text>">>)

Fallback == Str(<<"Could not generate report. Please try again.">>)

(***************************************************************************)
(* The two backoff invokers, as what they do when an attempt has ended:    *)
(* return the response, sleep and try again, or throw.  log is the         *)
(* outcomes of the attempts made so far, the last one being the attempt    *)
(* that has just ended.                                                    *)
(***************************************************************************)
Return == [do |-> "return", ms |-> 0, error |-> Undefined]

Sleep(ms) == [do |-> "sleep", ms |-> ms, error |-> Undefined]

Throw(e) == [do |-> "throw", ms |-> 0, error |-> e]

\* Faulty variant: the error of the first attempt is kept and thrown at the
\* end instead of the error just caught.
exponentialBackoff_firstError(iter, log) ==
    IF Last(log).error = "" THEN Return
    ELSE IF iter < maxRetries - 1 THEN Sleep(baseDelay * Pow2(iter))
    ELSE Throw(FetchErrorMessage(log[1]))

\* src/api/generate-report.js: fetch resolves for every HTTP status, and
\* only a rejection reaches the catch.
exponentialBackoff(iter, log) ==
    IF Last(log).error = "" THEN Return
    ELSE IF iter < maxRetries - 1 THEN Sleep(baseDelay * Pow2(iter))
    ELSE Throw(FetchErrorMessage(Last(log)))

\* src/unnamed/part_000: the catch block.
fetchWithBackoffCatch_offByOne(r, d, error) ==
    IF r >= 0 THEN Sleep(d) ELSE Throw(error)

fetchWithBackoffCatch(r, d, error) ==
    IF r > 0 THEN Sleep(d) ELSE Throw(error)

\* src/unnamed/part_000: the throw of line 68 is inside the try block, so
\* the catch block of the same call takes it; `return fetchWithBackoff(...)`
\* is not awaited, so a rejection of the inner call is not caught here.
fetchWithBackoff(r, d, log) ==
    LET o == Last(log)
    IN  IF o.error # "" THEN fetchWithBackoffCatch(r, d, FetchErrorMessage(o))
        ELSE IF ~Ok(o.status) THEN
                IF o.status = 429 /\ r > 0 THEN Sleep(d)
                ELSE fetchWithBackoffCatch(r, d, HttpErrorMessage(o.status))
        ELSE Return

Invoker(v) == IF v = "api" THEN "exponentialBackoff" ELSE "fetchWithBackoff"

Decide(v, iter, r, d, log) ==
    IF v = "api" THEN exponentialBackoff(iter, log) ELSE fetchWithBackoff(r, d, log)

(***************************************************************************)
(* The prompt: the values the template literal interpolates, by slot.      *)
(***************************************************************************)
\* src/api/generate-report.js, const prompt
prompt_api(b) ==
    [riverMile            |-> ToStringJS(Or(b.riverMile, Str(<<"Not specified">>))),
     current              |-> ToStringJS(b.current),
     riverWidth           |-> ToStringJS(b.riverWidth),
     angle                |-> ToStringJS(b.angle),
     calculatedBoomLength |-> ToStringJS(b.calculatedBoomLength),
     tension              |-> ToStringJS(b.tension),
     interval             |-> ToStringJS(b.interval),
     driftTime            |-> ToStringJS(Or(b.driftTime, Str(<<"Not measured">>))),
     isCascade            |-> IF ToBoolean(b.isCascade) THEN Str(<<"Yes">>) ELSE Str(<<"No">>),
     segments             |-> ToStringJS(IF ToBoolean(b.isCascade) THEN b.segments ELSE Num(1, 1)),
     anchors              |-> ToStringJS(b.anchors),
     anchorDetailsText    |-> ToStringJS(b.anchorDetailsText)]

\* The clause of userQuery that `isCascade ? ... : ''` writes.
cascadeClause(b) ==
    IF ToBoolean(b.isCascade)
    THEN Str(<<"The deployment will utilize a cascade booming system with ">>
             \o ToStringJS(b.segments).s \o <<" segments.">>)
    ELSE Str(<<>>)

\* src/unnamed/part_000, const userQuery
userQuery(b) ==
    [riverMile            |-> ToStringJS(b.riverMile),
     riverWidth           |-> ToStringJS(b.riverWidth),
     driftTime            |-> ToStringJS(b.driftTime),
     current              |-> ToStringJS(b.current),
     angle                |-> ToStringJS(b.angle),
     calculatedBoomLength |-> ToStringJS(b.calculatedBoomLength),
     tension              |-> ToStringJS(b.tension),
     interval             |-> ToStringJS(b.interval),
     anchorDetailsText    |-> ToStringJS(b.anchorDetailsText),
     cascade              |-> cascadeClause(b)]

BuildPrompt(v, b) == IF v = "api" THEN prompt_api(b) ELSE userQuery(b)

(***************************************************************************)
(* The record for the persistence service.                                 *)
(***************************************************************************)
\* Faulty variant: "Segments" is written from the request whatever the
\* cascade flag says.
fields_api_rawSegments(b, text) ==
    ("Report" :> text)
      @@ ("Current" :> parseFloat(b.current))
      @@ ("Angle" :> parseFloat(b.angle))
      @@ ("River Width" :> parseFloat(b.riverWidth))
      @@ ("River Mile" :> b.riverMile)
      @@ ("Boom Length" :> parseFloat(b.calculatedBoomLength))
      @@ ("Seg Length" :> parseFloat(Divide(b.calculatedBoomLength, b.segments)))
      @@ ("Anchor Interval" :> parseInt(b.interval))
      @@ ("Drift Time" :> Or(parseFloat(b.driftTime), Null))
      @@ ("Segments" :> b.segments)
      @@ ("Anchors" :> b.anchors)

\* src/api/generate-report.js, const airtablePayload (records[0].fields)
fields_api(b, text) ==
    ("Report" :> text)
      @@ ("Current" :> parseFloat(b.current))
      @@ ("Angle" :> parseFloat(b.angle))
      @@ ("River Width" :> parseFloat(b.riverWidth))
      @@ ("River Mile" :> b.riverMile)
      @@ ("Boom Length" :> parseFloat(b.calculatedBoomLength))
      @@ ("Seg Length" :> parseFloat(Divide(b.calculatedBoomLength, b.segments)))
      @@ ("Anchor Interval" :> parseInt(b.interval))
      @@ ("Drift Time" :> Or(parseFloat(b.driftTime), Null))
      @@ ("Segments" :> IF ToBoolean(b.isCascade) THEN b.segments ELSE Num(1, 1))
      @@ ("Anchors" :> b.anchors)

\* interval.includes(...) needs interval to be a string: on undefined, or
\* on a number, the call raises a TypeError.
CanIncludes(v) == v.t = "string"

\* src/unnamed/part_000, let intervalValueForAirtable (interval a string)
intervalValueForAirtable(interval) ==
    IF Includes(interval.s, <<"+">>)
    THEN parseFloat(Str(ReplaceFirst(interval.s, "+")))
    ELSE IF Includes(interval.s, <<"p", "e", "r">>)
    THEN parseFloat(Str(SplitFirst(interval.s)))
    ELSE parseFloat(interval)

\* isNaN(x) ? null : x
NullIfNaN(x) == IF isNaN(x) THEN Null ELSE x

ReportDate == Str(<<"<today>">>)

\* src/unnamed/part_000, const airtablePayload (records[0].fields)
fields_unnamed(b, text) ==
    ("River Mile" :> Or(b.riverMile, Str(<<"N/A">>)))
      @@ ("Current" :> NullIfNaN(parseFloat(b.current)))
      @@ ("Boom Required (ft)" :> NullIfNaN(parseFloat(b.calculatedBoomLength)))
      @@ ("Angle" :> NullIfNaN(parseFloat(b.angle)))
      @@ ("Tension" :> b.tension)
      @@ ("Anchors" :> NullIfNaN(parseFloat(b.anchors)))
      @@ ("Anchor Interval" :> NullIfNaN(intervalValueForAirtable(b.interval)))
      @@ ("River Width (ft)" :> NullIfNaN(parseFloat(b.riverWidth)))
      @@ ("Drift Time (sec)" :> b.driftTime)
      @@ ("Generated Report" :> text)
      @@ ("Report Date" :> ReportDate)
      @@ ("Cascade System?" :> b.isCascade)
      @@ ("Segments" :> IF ToBoolean(b.isCascade) THEN parseFloat(b.segments) ELSE Null)

BuildPayload(v, b, text) ==
    JSONstringify(IF v = "api" THEN fields_api(b, text) ELSE fields_unnamed(b, text))

(***************************************************************************)
(* What the handler does with the parsed answer of the generation          *)
(* service: the text it goes on with, or the error it raises.              *)
(***************************************************************************)
\* src/api/generate-report.js: no text is an error.
afterGeneration_api(b, parsed) ==
    IF ~parsed.json THEN [error |-> JsonErrorMessage, text |-> Undefined]
    ELSE IF ~ToBoolean(parsed.text) THEN [error |-> NoTextMessage, text |-> Undefined]
    ELSE [error |-> Undefined, text |-> parsed.text]

\* src/unnamed/part_000: no text is replaced by the fallback; the interval
\* is then parsed with String methods.
afterGeneration_unnamed(b, parsed) ==
    IF ~parsed.json THEN [error |-> JsonErrorMessage, text |-> Undefined]
    ELSE IF ~CanIncludes(b.interval)
         THEN [error |-> IncludesTypeError(b.interval), text |-> Or(parsed.text, Fallback)]
    ELSE [error |-> Undefined, text |-> Or(parsed.text, Fallback)]

AfterGeneration(v, b, parsed) ==
    IF v = "api" THEN afterGeneration_api(b, parsed) ELSE afterGeneration_unnamed(b, parsed)

\* Faulty variant: the response of the persistence service is not looked at.
afterPersist_api_unchecked(r) == Undefined

\* After the persistence call has returned: the api handler checks
\* response.ok, the other handler does not look at the response.
afterPersist_api(r) ==
    IF ~Ok(r.status) THEN SaveErrorMessage(r.status) ELSE Undefined

afterPersist_unnamed(r) == Undefined

AfterPersist(v, r) == IF v = "api" THEN afterPersist_api(r) ELSE afterPersist_unnamed(r)

\* The bodies of the responses.
MethodNotAllowed == [message |-> Str(<<"Method Not Allowed">>)]

MissingEnvBody ==
    [error |-> Str(<<"Missing environment variables. Please check your Vercel settings.">>)]

\* Faulty variant: the catch block answers with a fixed text instead of
\* error.message.
ErrorBody_fixedText(v, e) ==
    [message |-> IF v = "api" THEN Str(<<"An unexpected error occurred.">>)
                 ELSE Str(<<"Failed to generate or save the report.">>),
     error   |-> Str(<<"Internal error">>)]

ErrorBody(v, e) ==
    [message |-> IF v = "api" THEN Str(<<"An unexpected error occurred.">>)
                 ELSE Str(<<"Failed to generate or save the report.">>),
     error   |-> e]

SuccessBody(v, text) ==
    IF v = "api" THEN [reportText |-> text]
    ELSE [success |-> Bool(TRUE),
          message |-> Str(<<"Report generated and saved!">>),
          reportText |-> text]

\* The check of line 26 of src/unnamed/part_000; src/api/generate-report.js
\* reads process.env into constants and checks nothing.
ConfigAccepted(v, e) == v = "api" \/ Secrets(v) \subseteq e

(***************************************************************************)
(* Initial states: a request has arrived and nothing has been done.        *)
(***************************************************************************)
Fresh ==
    /\ pc = "start"
    /\ phase = "none"
    /\ i = 0
    /\ retries = defaultRetries
    /\ delay = defaultDelay
    /\ sent = [gen |-> 0, persist |-> 0]
    /\ outcomes = [gen |-> <<>>, persist |-> <<>>]
    /\ waits = [gen |-> <<>>, persist |-> <<>>]
    /\ result = NoResult
    /\ thrown = <<>>
    /\ prompt = NoPrompt
    /\ geminiResult = NotParsed
    /\ generatedText = Undefined
    /\ airtablePayload = NoPayload
    /\ responses = <<>>

\* The scenario request against upstream services that fail.
UpstreamSweep ==
    /\ variant \in Variants
    /\ method = "POST"
    /\ env = Secrets(variant)
    /\ body = ScenarioBody
    /\ faults \in FaultProfiles

\* Every request body against upstream services that answer.
PayloadSweep ==
    /\ variant \in Variants
    /\ method = "POST"
    /\ env = Secrets(variant)
    /\ body \in Bodies
    /\ faults = {}

\* Every method and every configuration with at most MaxMissing names undefined.
ConfigSweep ==
    /\ variant \in Variants
    /\ method \in Methods
    /\ env \in {Secrets(variant) \ m : m \in {x \in SUBSET Secrets(variant) : Cardinality(x) <= MaxMissing}}
    /\ body = ScenarioBody
    /\ faults = {}

Init == Fresh /\ (UpstreamSweep \/ PayloadSweep \/ ConfigSweep)

(***************************************************************************)
(* The handler.                                                            *)
(***************************************************************************)
Send(status, json) == responses' = Append(responses, [status |-> status, body |-> json])

\* Faulty variant: the 405 is sent without `return`, and the handler goes
\* on into its try block.
RejectMethod_noReturn ==
    /\ pc = "start"
    /\ method # "POST"
    /\ Send(405, MethodNotAllowed)
    /\ prompt' = BuildPrompt(variant, body)
    /\ phase' = "gen"
    /\ pc' = "call"
    /\ UNCHANGED <<input, i, retries, delay, sent, outcomes, waits, result,
                   thrown, geminiResult, generatedText, airtablePayload>>

\* if (req.method !== 'POST') return res.status(405).json(...)
RejectMethod ==
    /\ pc = "start"
    /\ method # "POST"
    /\ Send(405, MethodNotAllowed)
    /\ pc' = "done"
    /\ UNCHANGED <<input, phase, i, retries, delay, sent, outcomes, waits, result,
                   thrown, prompt, geminiResult, generatedText, airtablePayload>>

\* src/unnamed/part_000 only: a name of the configuration is undefined.
MissingEnv ==
    /\ pc = "start"
    /\ method = "POST"
    /\ ~ConfigAccepted(variant, env)
    /\ Send(500, MissingEnvBody)
    /\ pc' = "done"
    /\ UNCHANGED <<input, phase, i, retries, delay, sent, outcomes, waits, result,
                   thrown, prompt, geminiResult, generatedText, airtablePayload>>

\* The prompt is built and the backoff invoker is called for step 1.
StartGeneration ==
    /\ pc = "start"
    /\ method = "POST"
    /\ ConfigAccepted(variant, env)
    /\ prompt' = BuildPrompt(variant, body)
    /\ phase' = "gen"
    /\ i' = 0
    /\ retries' = defaultRetries
    /\ delay' = defaultDelay
    /\ pc' = "call"
    /\ UNCHANGED <<input, sent, outcomes, waits, result, thrown, geminiResult,
                   generatedText, airtablePayload, responses>>

\* The invoker calls fetch: one outbound call to the service of the phase.
Fetch ==
    /\ pc = "call"
    /\ sent' = [sent EXCEPT ![phase] = @ + 1]
    /\ pc' = "inflight"
    /\ UNCHANGED <<input, phase, i, retries, delay, outcomes, waits, result, thrown,
                   prompt, geminiResult, generatedText, airtablePayload, responses>>

\* The call ends in outcome o, and the invoker returns, sleeps or throws.
Settle(o) ==
    LET log == Append(outcomes[phase], o)
        dec == Decide(variant, i, retries, delay, log)
    IN  /\ outcomes' = [outcomes EXCEPT ![phase] = log]
        /\ CASE dec.do = "return" ->
                    /\ result' = o
                    /\ pc' = "returned"
                    /\ UNCHANGED <<waits, thrown>>
             [] dec.do = "sleep" ->
                    /\ waits' = [waits EXCEPT ![phase] = Append(@, dec.ms)]
                    /\ pc' = "sleep"
                    /\ UNCHANGED <<result, thrown>>
             [] dec.do = "throw" ->
                    /\ thrown' = Append(thrown, [by |-> Invoker(variant), error |-> dec.error])
                    /\ pc' = "raised"
                    /\ UNCHANGED <<result, waits>>
        /\ UNCHANGED <<input, phase, i, retries, delay, sent, prompt, geminiResult,
                       generatedText, airtablePayload, responses>>

\* fetch rejects: a network error.
FetchRejects ==
    /\ pc = "inflight"
    /\ \E o \in {f \in Upstream(faults) : f.error # ""} : Settle(o)

\* fetch resolves with a response of some status.
FetchResolves ==
    /\ pc = "inflight"
    /\ \E o \in {f \in Upstream(faults) : f.error = ""} : Settle(o)

\* The timer of the backoff fires: the loop goes round (i++), or the
\* recursive call fetchWithBackoff(url, options, retries - 1, delay * 2)
\* starts.  A loop that has run maxRetries times falls through and the
\* invoker returns undefined.
TimerFires ==
    /\ pc = "sleep"
    /\ IF variant = "api"
       THEN /\ i' = i + 1
            /\ pc' = IF i + 1 < maxRetries THEN "call" ELSE "returned"
            /\ UNCHANGED <<retries, delay>>
       ELSE /\ retries' = retries - 1
            /\ delay' = delay * 2
            /\ pc' = "call"
            /\ UNCHANGED i
    /\ UNCHANGED <<input, phase, sent, outcomes, waits, result, thrown, prompt,
                   geminiResult, generatedText, airtablePayload, responses>>

\* Step 1 has returned a response: await response.json(), take the text,
\* build the record and call the backoff invoker for step 2.  An error
\* raised on the way goes to the catch block.
ParseGeneration ==
    /\ pc = "returned"
    /\ phase = "gen"
    /\ \E parsed \in GenerationBodies :
          LET a == AfterGeneration(variant, body, parsed)
          IN  /\ geminiResult' = parsed
              /\ generatedText' = a.text
              /\ IF a.error # Undefined
                 THEN /\ thrown' = Append(thrown, [by |-> "handler", error |-> a.error])
                      /\ pc' = "raised"
                      /\ UNCHANGED <<phase, airtablePayload, result>>
                 ELSE /\ airtablePayload' = BuildPayload(variant, body, a.text)
                      /\ phase' = "persist"
                      /\ result' = NoResult
                      /\ pc' = "call"
                      /\ UNCHANGED thrown
    /\ i' = 0
    /\ retries' = defaultRetries
    /\ delay' = defaultDelay
    /\ UNCHANGED <<input, sent, outcomes, waits, prompt, responses>>

\* Step 2 has returned a response: the success response is sent, unless
\* the handler finds the response not ok and raises.
FinishPersist ==
    /\ pc = "returned"
    /\ phase = "persist"
    /\ LET e == AfterPersist(variant, result)
       IN  IF e # Undefined
           THEN /\ thrown' = Append(thrown, [by |-> "handler", error |-> e])
                /\ pc' = "raised"
                /\ UNCHANGED responses
           ELSE /\ Send(200, SuccessBody(variant, generatedText))
                /\ pc' = "done"
                /\ UNCHANGED thrown
    /\ UNCHANGED <<input, phase, i, retries, delay, sent, outcomes, waits, result,
                   prompt, geminiResult, generatedText, airtablePayload>>

\* Faulty variant: the catch block ends the request without a response.
CatchError_silent ==
    /\ pc = "raised"
    /\ pc' = "done"
    /\ UNCHANGED <<input, phase, i, retries, delay, sent, outcomes, waits, result,
                   thrown, prompt, geminiResult, generatedText, airtablePayload,
                   responses>>

\* catch (error) { res.status(500).json({ message, error: error.message }) }
CatchError ==
    /\ pc = "raised"
    /\ Send(500, ErrorBody(variant, Last(thrown).error))
    /\ pc' = "done"
    /\ UNCHANGED <<input, phase, i, retries, delay, sent, outcomes, waits, result,
                   thrown, prompt, geminiResult, generatedText, airtablePayload>>

Next ==
    \/ RejectMethod
    \/ MissingEnv
    \/ StartGeneration
    \/ Fetch
    \/ FetchRejects
    \/ FetchResolves
    \/ TimerFires
    \/ ParseGeneration
    \/ FinishPersist
    \/ CatchError

Spec == Init /\ [][Next]_vars

\* The steps of the handler itself: the code that runs between two awaits.
\* A continuation that is ready is run by the event loop.
HandlerStep ==
    \/ RejectMethod
    \/ MissingEnv
    \/ StartGeneration
    \/ Fetch
    \/ ParseGeneration
    \/ FinishPersist
    \/ CatchError

\* Every outbound call completes (fetch resolves or rejects), every
\* setTimeout of a backoff fires, and a ready continuation runs.
FairSpec ==
    /\ Spec
    /\ WF_vars(HandlerStep)
    /\ WF_vars(FetchRejects \/ FetchResolves)
    /\ WF_vars(TimerFires)

TypeOK ==
    /\ variant \in Variants
    /\ pc \in {"start", "call", "inflight", "sleep", "returned", "raised", "done"}
    /\ phase \in {"none", "gen", "persist"}
    /\ i \in 0..maxRetries
    /\ retries \in 0..defaultRetries
    /\ Len(responses) <= 1

(***************************************************************************)
(* Vocabulary of the properties.                                           *)
(***************************************************************************)
Services == {"gen", "persist"}

ConfigValid == Secrets(variant) \subseteq env

\* An attempt that did not succeed: a network error or a non-success status.
Failed(o) == o.error # "" \/ ~Ok(o.status)

\* A failure that is to be retried: a network error or HTTP 429.
Retryable(o) == o.error # "" \/ o.status = 429

IsPrefix(a, b) == Len(a) <= Len(b) /\ \A k \in 1..Len(a) : a[k] = b[k]

\* The invoker called for service ph has returned or thrown.
InvokerFinished(ph) ==
    \/ phase = ph /\ pc \in {"returned", "raised", "done"}
    \/ ph = "gen" /\ phase = "persist"

UsableText == [json |-> TRUE, text |-> ReportText]

\* json() gave an object from which no first-candidate text comes.
NoUsableText == geminiResult # NotParsed /\ geminiResult.json /\ ~ToBoolean(geminiResult.text)

(***************************************************************************)
(* C1.  The generation service answers 429, 429, then 200 with usable      *)
(* text, the configuration is valid and the persistence service succeeds:  *)
(* when the request is over, exactly three calls have gone to the          *)
(* generation service and the response sent has status 200.  A run is in   *)
(* that scenario when every answer it has received is the scenario's.      *)
(***************************************************************************)
RateLimitedTwice == <<Response(429), Response(429), Response(200)>>

C1_InScenario ==
    /\ method = "POST"
    /\ ConfigValid
    /\ outcomes.gen # <<>>
    /\ IsPrefix(outcomes.gen, RateLimitedTwice)
    /\ (Len(outcomes.gen) = 3 /\ geminiResult # NotParsed) => geminiResult = UsableText
    /\ \A k \in 1..Len(outcomes.persist) : outcomes.persist[k] = Response(200)

C1_ThreeCallsThen200 ==
    (pc = "done" /\ C1_InScenario)
        => /\ sent.gen = 3
           /\ Len(responses) = 1
           /\ responses[1].status = 200

(***************************************************************************)
(* C2.  No partial success: when every persistence attempt has failed the  *)
(* response is a 500 without reportText, and a response of status 200 is   *)
(* sent only after a persistence call has returned a success status.       *)
(***************************************************************************)
C2_NoPartialSuccess ==
    /\ (/\ pc = "done"
        /\ sent.persist > 0
        /\ \A k \in 1..Len(outcomes.persist) : Failed(outcomes.persist[k]))
          => /\ Len(responses) = 1
             /\ responses[1].status = 500
             /\ "reportText" \notin DOMAIN responses[1].body
    /\ \A k \in 1..Len(responses) :
          responses[k].status = 200
            => /\ outcomes.persist # <<>>
               /\ ~Failed(Last(outcomes.persist))

\* The api handler has the text, the persistence service answers 500, and
\* the caller gets a 500.
C2_Witness ==
    /\ pc = "done"
    /\ variant = "api"
    /\ generatedText = ReportText
    /\ outcomes.persist # <<>>
    /\ Last(outcomes.persist) = Response(500)
    /\ responses[1].status = 500

(***************************************************************************)
(* C3.  A POST request with one of the four secrets absent is answered     *)
(* with status 500 and no outbound call is made to either service.         *)
(***************************************************************************)
C3_MissingSecretNoCalls ==
    (method = "POST" /\ ~ConfigValid)
        => /\ sent.gen = 0
           /\ sent.persist = 0
           /\ pc = "done" => (Len(responses) = 1 /\ responses[1].status = 500)

(***************************************************************************)
(* C4.  A request whose method is not POST is answered 405 with the body   *)
(* {message: 'Method Not Allowed'}, and no outbound call is made, whatever *)
(* the request body and the configuration.                                 *)
(***************************************************************************)
C4_MethodNotAllowed ==
    method # "POST"
        => /\ sent.gen = 0
           /\ sent.persist = 0
           /\ pc \in {"start", "done"}
           /\ pc = "start" => responses = <<>>
           /\ pc = "done" =>
                 responses = <<[status |-> 405,
                                body |-> [message |-> Str(<<"Method Not Allowed">>)]]>>

\* A GET with a secret missing has been answered 405.
C4_Witness ==
    /\ pc = "done"
    /\ method = "GET"
    /\ ~ConfigValid
    /\ Len(responses) = 1
    /\ responses[1].status = 405

(***************************************************************************)
(* C5.  No persistence call is made before a generation call has returned  *)
(* a response; and when the generation step raises, no persistence call    *)
(* is made and the response is a 500 whose error field is the message of   *)
(* the error raised.                                                       *)
(***************************************************************************)
C5_OrderAndShortCircuit ==
    /\ sent.persist > 0
          => (outcomes.gen # <<>> /\ Last(outcomes.gen).error = "")
    /\ (phase = "gen" /\ thrown # <<>>)
          => /\ sent.persist = 0
             /\ pc \in {"raised", "done"}
             /\ pc = "done" =>
                   /\ Len(responses) = 1
                   /\ responses[1].status = 500
                   /\ responses[1].body.error = thrown[1].error

\* The generation step has used up its retries in part_000 and the caller
\* has its 500.
C5_Witness ==
    /\ pc = "done"
    /\ phase = "gen"
    /\ thrown # <<>>
    /\ thrown[1].by = "fetchWithBackoff"
    /\ Len(outcomes.gen) = defaultRetries + 1
    /\ responses[1].status = 500

(***************************************************************************)
(* C6.  Retry exhaustion: when the operation has failed at every attempt   *)
(* up to the budget (5 attempts of exponentialBackoff, whose operation     *)
(* fails when fetch rejects; 1 + 3 attempts of fetchWithBackoff, which     *)
(* fails on a rejection or a non-success status), the invoker has raised   *)
(* exactly one error, the error of the last attempt, and returned nothing. *)
(***************************************************************************)
Attempts(v) == IF v = "api" THEN maxRetries ELSE defaultRetries + 1

OperationFailed(v, o) == o.error # "" \/ (v = "unnamed" /\ ~Ok(o.status))

AttemptError(o) ==
    IF o.error # "" THEN Str(<<"request failed, reason: ", o.error>>)
    ELSE Str(<<"HTTP error! status: ", ToString(o.status)>>)

ThrownByInvoker == SelectSeq(thrown, LAMBDA t : t.by # "handler")

Budget(v) == IF v = "api" THEN maxRetries ELSE defaultRetries

Base(v) == IF v = "api" THEN baseDelay ELSE defaultDelay

C7_RetryUntilSuccess ==
    \A ph \in Services :
        LET log == outcomes[ph]
            k   == Len(log) - 1
        IN  (/\ InvokerFinished(ph)
             /\ log # <<>>
             /\ \A n \in 1..k : Retryable(log[n]))
              => /\ Len(log) < Budget(variant) => ~Retryable(log[k + 1])
                 /\ (k < Budget(variant) /\ Ok(log[k + 1].status))
                       => /\ phase = ph => result = log[k + 1]
                          /\ waits[ph] = [n \in 1..k |-> Base(variant) * Pow2(n - 1)]
                          /\ Sum(waits[ph]) = Base(variant) * (Pow2(k) - 1)

(***************************************************************************)
(* C8.  Empty generation result: the api handler raises, makes no          *)
(* persistence call and answers 500; the part_000 handler goes on with     *)
(* the fallback string, puts it in the 'Generated Report' field of the     *)
(* record it persists and, when the write succeeds, answers 200 with the   *)
(* fallback as reportText.                                                 *)
(***************************************************************************)
C8_EmptyGeneration ==
    NoUsableText
        => IF variant = "api"
           THEN /\ sent.persist = 0
                /\ thrown # <<>>
                /\ pc = "done" => (Len(responses) = 1 /\ responses[1].status = 500)
           ELSE /\ generatedText = Str(<<"Could not generate report. Please try again.">>)
                /\ phase = "persist"
                /\ airtablePayload # NoPayload
                /\ airtablePayload["Generated Report"] = generatedText
                /\ (pc = "done" /\ ~Failed(Last(outcomes.persist)))
                      => /\ Len(responses) = 1
                         /\ responses[1].status = 200
                         /\ responses[1].body.reportText = generatedText

(***************************************************************************)
(* C9.  Lenient coercion: with a valid configuration and a generation      *)
(* step that has given its text, an absent or non-numeric field never      *)
(* aborts the request: the handler goes on to submit the record, in which  *)
(* that field is null.                                                     *)
(***************************************************************************)
NonNumeric(v) == parseFloat(v).t = "NaN"

C9_LenientCoercion ==
    (method = "POST" /\ ConfigValid /\ geminiResult = UsableText)
        => /\ phase = "persist"
           /\ airtablePayload # NoPayload
           /\ NonNumeric(body.current) => airtablePayload["Current"] = Null
           /\ NonNumeric(body.interval) => airtablePayload["Anchor Interval"] = Null
           /\ pc = "done" => sent.persist >= 1

C11_IntervalIsLeadingNumber ==
    \A l \in Leads :
        (body.interval \in IntervalForms(l) /\ airtablePayload # NoPayload)
            => /\ "Anchor Interval" \in DOMAIN airtablePayload
               /\ airtablePayload["Anchor Interval"] = JSV("number", l.n, l.d, <<>>)

(***************************************************************************)
(* C12.  End to end: the scenario request (isCascade true, segments "2",   *)
(* interval "150+", numeric strings elsewhere) under a valid               *)
(* configuration, with every outbound call answered 200 and the            *)
(* generation service giving its text: the response is a 200 with a        *)
(* non-empty reportText and the 'Segments' field of the record sent to     *)
(* the persistence service is the number 2.                                *)
(***************************************************************************)
C12_InScenario ==
    /\ method = "POST"
    /\ ConfigValid
    /\ body = ScenarioBody
    /\ \A ph \in Services : \A k \in 1..Len(outcomes[ph]) : outcomes[ph][k] = Response(200)
    /\ geminiResult \in {NotParsed, UsableText}

C12_EndToEnd ==
    (pc = "done" /\ C12_InScenario)
        => /\ Len(responses) = 1
           /\ responses[1].status = 200
           /\ "reportText" \in DOMAIN responses[1].body
           /\ responses[1].body.reportText.t = "string"
           /\ responses[1].body.reportText.s # <<>>
           /\ sent.persist = 1
           /\ airtablePayload["Segments"] = JSV("number", 2, 1, <<>>)

(***************************************************************************)
(* C13.  Fail-fast in fetchWithBackoff: when the first attempt for a       *)
(* service is answered with a non-success status other than 429,           *)
(* fetchWithBackoff raises 'HTTP error! status: <code>' at once: one       *)
(* outbound call to that service, no wait, no further attempt.             *)
(***************************************************************************)
OtherFailureStatus(o) == o.error = "" /\ ~Ok(o.status) /\ o.status # 429

C13_FailFastOnOtherStatus ==
    \A ph \in Services :
        (/\ variant = "unnamed"
         /\ outcomes[ph] # <<>>
         /\ OtherFailureStatus(outcomes[ph][1]))
          => /\ pc \in {"raised", "done"}
             /\ sent[ph] = 1
             /\ waits[ph] = <<>>
             /\ ThrownByInvoker = <<[by |-> "fetchWithBackoff",
                                     error |-> AttemptError(outcomes[ph][1])]>>

(***************************************************************************)
(* C14.  Bounded attempts: whatever the services answer, one invocation    *)
(* of exponentialBackoff makes at most 5 attempts and one invocation of    *)
(* fetchWithBackoff at most 4 (1 + 3 retries); every failed attempt of     *)
(* fetchWithBackoff takes exactly one retry and doubles the delay, also    *)
(* when the error was thrown inside the try block; so a request makes at   *)
(* most 10 outbound calls in the api handler and at most 8 in part_000.    *)
(***************************************************************************)
C14_BoundedAttempts ==
    /\ \A ph \in Services :
          /\ sent[ph] <= Attempts(variant)
          /\ sent[ph] <= IF variant = "api" THEN 5 ELSE 4
          /\ Len(outcomes[ph]) <= sent[ph]
    /\ sent.gen + sent.persist <= IF variant = "api" THEN 10 ELSE 8
    /\ (variant = "unnamed" /\ pc \in {"call", "inflight"})
          => /\ retries = defaultRetries - Len(outcomes[phase])
             /\ delay = defaultDelay * Pow2(Len(outcomes[phase]))
             /\ \A k \in 1..Len(outcomes[phase]) : Failed(outcomes[phase][k])
    /\ (variant = "api" /\ pc \in {"call", "inflight"})
          => i = Len(outcomes[phase])

\* part_000 has made its eight calls: four to each service, the last four
\* all failed, one of them with a status whose error was thrown inside the
\* try block and caught by the same call.
C14_Witness ==
    /\ variant = "unnamed"
    /\ pc = "raised"
    /\ sent = [gen |-> 4, persist |-> 4]
    /\ \E k \in 1..3 : outcomes.persist[k] = Response(500)
    /\ retries = 0

(***************************************************************************)
(* C15.  Exactly one response: when every outbound call and every backoff  *)
(* timer eventually completes, each request eventually reaches a terminal  *)
(* outcome; it sends exactly one response, of status 405, 500 or 200, on   *)
(* every path (none before the end, one at the end, never two), and makes  *)
(* no outbound call once the response has been sent.                       *)
(***************************************************************************)
C15_ExactlyOneResponse ==
    /\ <>(pc = "done")
    /\ [](Len(responses) <= 1)
    /\ [](pc = "done" <=> Len(responses) = 1)
    /\ [](responses # <<>> => responses[1].status \in {405, 500, 200})
    /\ [][responses # <<>> => (sent' = sent /\ responses' = responses)]_vars

\* A request that was answered 200 after both services had to be called
\* again: calls and timers have completed on the way to the one response.
C15_Witness ==
    /\ pc = "done"
    /\ Len(responses) = 1
    /\ responses[1].status = 200
    /\ Len(waits.gen) > 0
    /\ Len(waits.persist) > 0
    /\ sent.gen = Len(waits.gen) + 1
    /\ sent.persist = Len(waits.persist) + 1

====
